---- MODULE Spec2Model ----
(***************************************************************************)
(* A model of the financial_assistant RAG pipeline: the entry point        *)
(* (src/main.py), DocumentLoader, TextProcessor, VectorStoreManager and    *)
(* QueryEngine.                                                            *)
(*                                                                         *)
(* Text is a sequence of one-character strings.  Rendered text (context,   *)
(* prompt) is a sequence of tokens: the characters of the chunks plus the  *)
(* literal pieces the code writes ("[Source: ", "]", ...).                 *)
(*                                                                         *)
(* The third-party calls the code makes are modelled by what the library   *)
(* does on the call as written in the source:                              *)
(*   - RecursiveCharacterTextSplitter (langchain) with the arguments of    *)
(*     text_processor.py:34-40 (keep_separator and strip_whitespace at     *)
(*     their defaults, True);                                              *)
(*   - Chroma.add_documents / similarity_search and chromadb's             *)
(*     PersistentClient (vector_store_manager.py);                         *)
(*   - the chat model's invoke (query_engine.py:36, 70).                   *)
(* The embedding and chat services are taken to be reachable: service      *)
(* outages are not modelled.                                               *)
(***************************************************************************)
EXTENDS Integers, Sequences, FiniteSets, TLC

VARIABLES
    pc,            \* position of the caller (main, or the object under test)
    error,         \* "none", or the exception that ended the run
    env,           \* the environment values read by Settings
    dir_exists,    \* whether data/inputs exists
    files,         \* the files rglob("*") yields, in traversal order
    io,            \* the I/O performed so far
    documents,     \* main's `documents`
    processor,     \* the TextProcessor (None before construction)
    text,          \* the argument of a split_text call
    chunks,        \* main's `chunks`
    text_chunks,   \* the result of the split_text call
    store,         \* the VectorStoreManager (None before construction)
    index,         \* the persisted collection: a sequence of records
    added,         \* the list handed to the index's add (None before)
    doc_ids,       \* main's `doc_ids`
    stats,         \* main's `stats`
    question,      \* the question of the query
    k,             \* the k of the query
    custom_prompt, \* the template of query_with_custom_prompt
    retrieved,     \* retrieved_docs
    context,       \* the context string
    prompt,        \* the prompt handed to the chat model
    llm_calls,     \* how often llm.invoke has been called
    result         \* what the query returned (None before)

vars == <<pc, error, env, dir_exists, files, io, documents, processor, text,
          chunks, text_chunks, store, index, added, doc_ids, stats, question, k,
          custom_prompt, retrieved, context, prompt, llm_calls, result>>

None == "None"

(***************************************************************************)
(* Bounds.                                                                 *)
(***************************************************************************)
MaxLen == 4
MaxPlainLen == 7
MaxChunk == 4
MaxFiles == 2
MaxIndex == 2
MaxK == 2

(***************************************************************************)
(* Text.                                                                   *)
(***************************************************************************)
Letters == {"a", "b"}
Whitespace == {" ", "\n"}
Alphabet == Letters \cup Whitespace

SeqsUpTo(S, n) == UNION {[1..m -> S] : m \in 0..n}

Min(a, b) == IF a < b THEN a ELSE b

RECURSIVE Concat(_)
Concat(ss) == IF ss = <<>> THEN <<>> ELSE Head(ss) \o Concat(Tail(ss))

RECURSIVE Join(_, _)
Join(ss, sep) ==
    IF ss = <<>> THEN <<>>
    ELSE IF Len(ss) = 1 THEN ss[1]
    ELSE ss[1] \o sep \o Join(Tail(ss), sep)

RECURSIVE LStrip(_)
LStrip(t) == IF t # <<>> /\ Head(t) \in Whitespace THEN LStrip(Tail(t)) ELSE t

RECURSIVE RStrip(_)
RStrip(t) ==
    IF t # <<>> /\ t[Len(t)] \in Whitespace
    THEN RStrip(SubSeq(t, 1, Len(t) - 1)) ELSE t

Strip(t) == RStrip(LStrip(t))

(***************************************************************************)
(* The splitter: RecursiveCharacterTextSplitter as TextProcessor.__init__  *)
(* configures it (length_function=len, is_separator_regex=False).          *)
(***************************************************************************)
\* text_processor.py:31-32: ["\n\n", "\n", " ", ""]
DefaultSeparators == << <<"\n", "\n">>, <<"\n">>, <<" ">>, <<>> >>

\* re.search(re.escape(sep), text)
Contains(t, sep) ==
    \E i \in 1..(Len(t) - Len(sep) + 1) : SubSeq(t, i, i + Len(sep) - 1) = sep

\* re.split(sep, text): the pieces between the leftmost non-overlapping matches
RECURSIVE ReSplit(_, _, _, _)
ReSplit(t, sep, i, cur) ==
    IF i > Len(t) THEN <<cur>>
    ELSE IF i + Len(sep) - 1 <= Len(t) /\ SubSeq(t, i, i + Len(sep) - 1) = sep
         THEN <<cur>> \o ReSplit(t, sep, i + Len(sep), <<>>)
         ELSE ReSplit(t, sep, i + 1, Append(cur, t[i]))

\* A plausible slip: the separators are dropped (keep_separator=False).
SplitTextWithRegexDropSep(t, sep) ==
    LET splits == IF sep = <<>> THEN [i \in 1..Len(t) |-> <<t[i]>>]
                  ELSE ReSplit(t, sep, 1, <<>>)
    IN  SelectSeq(splits, LAMBDA s : s # <<>>)

\* _split_text_with_regex with keep_separator=True: each separator is kept at
\* the start of the piece that follows it; empty pieces are dropped.
SplitTextWithRegex(t, sep) ==
    LET splits == IF sep = <<>> THEN [i \in 1..Len(t) |-> <<t[i]>>]
                  ELSE LET p == ReSplit(t, sep, 1, <<>>)
                       IN  [i \in 1..Len(p) |-> IF i = 1 THEN p[1] ELSE sep \o p[i]]
    IN  SelectSeq(splits, LAMBDA s : s # <<>>)

\* _join_docs: join, strip, None when empty (here: zero or one chunk)
JoinDocs(docs, separator) ==
    LET joined == Strip(Join(docs, separator))
    IN  IF joined = <<>> THEN <<>> ELSE <<joined>>

SepLen(current_doc, separator, least) ==
    IF Len(current_doc) > least THEN Len(separator) ELSE 0

\* A plausible slip: the window is popped down to less than the overlap.
RECURSIVE PopWindowBelowOverlap(_, _, _, _, _, _)
PopWindowBelowOverlap(current_doc, total, len, separator, chunk_size, chunk_overlap) ==
    IF total >= chunk_overlap /\ total > 0
    THEN PopWindowBelowOverlap(Tail(current_doc),
             total - (Len(current_doc[1]) + SepLen(current_doc, separator, 1)),
             len, separator, chunk_size, chunk_overlap)
    ELSE [current_doc |-> current_doc, total |-> total]

\* The while loop of _merge_splits: pop from the front while the window is
\* larger than the overlap, or too long to take the next piece.
RECURSIVE PopWindow(_, _, _, _, _, _)
PopWindow(current_doc, total, len, separator, chunk_size, chunk_overlap) ==
    IF \/ total > chunk_overlap
       \/ /\ total + len + SepLen(current_doc, separator, 0) > chunk_size
          /\ total > 0
    THEN PopWindow(Tail(current_doc),
             total - (Len(current_doc[1]) + SepLen(current_doc, separator, 1)),
             len, separator, chunk_size, chunk_overlap)
    ELSE [current_doc |-> current_doc, total |-> total]

\* The for loop of _merge_splits
RECURSIVE MergeLoop(_, _, _, _, _, _, _, _)
MergeLoop(splits, i, docs, current_doc, total, separator, chunk_size, chunk_overlap) ==
    IF i > Len(splits) THEN docs \o JoinDocs(current_doc, separator)
    ELSE
      LET d == splits[i]
          len == Len(d)
          full == total + len + SepLen(current_doc, separator, 0) > chunk_size
          emit == full /\ Len(current_doc) > 0
          docs1 == IF emit THEN docs \o JoinDocs(current_doc, separator) ELSE docs
          w == IF emit
               THEN PopWindow(current_doc, total, len, separator, chunk_size, chunk_overlap)
               ELSE [current_doc |-> current_doc, total |-> total]
          cur1 == Append(w.current_doc, d)
      IN  MergeLoop(splits, i + 1, docs1, cur1,
                    w.total + len + SepLen(cur1, separator, 1),
                    separator, chunk_size, chunk_overlap)

MergeSplits(splits, separator, chunk_size, chunk_overlap) ==
    MergeLoop(splits, 1, <<>>, <<>>, 0, separator, chunk_size, chunk_overlap)

\* The separator choice at the head of _split_text
RECURSIVE PickSeparator(_, _, _)
PickSeparator(t, separators, i) ==
    IF i > Len(separators)
    THEN [separator |-> separators[Len(separators)], new_separators |-> <<>>]
    ELSE IF separators[i] = <<>>
    THEN [separator |-> <<>>, new_separators |-> <<>>]
    ELSE IF Contains(t, separators[i])
    THEN [separator |-> separators[i],
          new_separators |-> SubSeq(separators, i + 1, Len(separators))]
    ELSE PickSeparator(t, separators, i + 1)

\* RecursiveCharacterTextSplitter._split_text and its loop over the pieces
RECURSIVE SplitTextRec(_, _, _, _)
RECURSIVE SplitLoop(_, _, _, _, _, _, _)
SplitLoop(splits, i, good, final, new_separators, chunk_size, chunk_overlap) ==
    IF i > Len(splits)
    THEN IF good # <<>>
         THEN final \o MergeSplits(good, <<>>, chunk_size, chunk_overlap)
         ELSE final
    ELSE
      LET s == splits[i] IN
      IF Len(s) < chunk_size
      THEN SplitLoop(splits, i + 1, Append(good, s), final, new_separators,
                     chunk_size, chunk_overlap)
      ELSE
        LET flushed == IF good # <<>>
                       THEN final \o MergeSplits(good, <<>>, chunk_size, chunk_overlap)
                       ELSE final
            piece == IF new_separators = <<>> THEN <<s>>
                     ELSE SplitTextRec(s, new_separators, chunk_size, chunk_overlap)
        IN  SplitLoop(splits, i + 1, <<>>, flushed \o piece, new_separators,
                      chunk_size, chunk_overlap)

SplitTextRec(t, separators, chunk_size, chunk_overlap) ==
    LET c == PickSeparator(t, separators, 1)
        splits == SplitTextWithRegex(t, c.separator)
    IN  SplitLoop(splits, 1, <<>>, <<>>, c.new_separators, chunk_size, chunk_overlap)

\* text_splitter.split_text(text) of a constructed TextProcessor
SplitterSplitText(p, t) ==
    SplitTextRec(t, p.separators, p.chunk_size, p.chunk_overlap)

\* A langchain Document
Doc(content, metadata) == [page_content |-> content, metadata |-> metadata]

\* text_splitter.split_documents(documents): every chunk of every document,
\* in order, each with its parent's metadata
RECURSIVE SplitterSplitDocuments(_, _)
SplitterSplitDocuments(p, docs) ==
    IF docs = <<>> THEN <<>>
    ELSE LET cs == SplitterSplitText(p, Head(docs).page_content)
         IN  [i \in 1..Len(cs) |-> Doc(cs[i], Head(docs).metadata)]
             \o SplitterSplitDocuments(p, Tail(docs))

(***************************************************************************)
(* Settings (src/config/settings.py): class attributes read from the       *)
(* environment at import; a value that is not set is None.  No attribute   *)
(* is validated.                                                           *)
(***************************************************************************)
ConfigKeys == {"CHUNK_SIZE", "CHUNK_OVERLAP", "TOP_K", "COLLECTION_NAME",
               "VECTOR_STORE_PATH"}

\* Settings.get_summary(): the values as os.getenv returned them
get_summary(e) == [key \in ConfigKeys |-> e[key]]

(***************************************************************************)
(* DocumentLoader (src/utils/document_loader.py).                          *)
(***************************************************************************)
\* document_loader.py:27-40
SUPPORTED_EXTENSIONS ==
    [ext \in {".pdf", ".txt", ".doc", ".docx", ".ppt", ".pptx", ".xlsx", ".xls",
              ".csv", ".json", ".html", ".md"} |->
        CASE ext = ".pdf" -> "pdf"
          [] ext = ".txt" -> "text"
          [] ext = ".doc" -> "doc"
          [] ext = ".docx" -> "docx"
          [] ext = ".ppt" -> "ppt"
          [] ext = ".pptx" -> "pptx"
          [] ext \in {".xlsx", ".xls"} -> "excel"
          [] ext = ".csv" -> "csv"
          [] ext = ".json" -> "json"
          [] ext = ".html" -> "html"
          [] ext = ".md" -> "markdown"]

\* file_path.suffix.lower(), on the suffixes the model draws
Lower(ext) == IF ext = ".TXT" THEN ".txt" ELSE ext

\* SUPPORTED_EXTENSIONS.get(ext), ext the lowered suffix
FileType(ext) ==
    IF Lower(ext) \in DOMAIN SUPPORTED_EXTENSIONS
    THEN SUPPORTED_EXTENSIONS[Lower(ext)] ELSE None

\* the keys of loader_map, document_loader.py:68-78
LoaderTypes == {"pdf", "text", "docx", "pptx", "excel", "csv", "json", "html",
                "markdown"}

\* _get_loader: a loader, or None for an extension that is not supported or
\* has no entry in loader_map
HasLoader(f) == FileType(f.ext) # None /\ FileType(f.ext) \in LoaderTypes

\* f-string / dict.update helpers
Update(m, u) ==
    [key \in DOMAIN m \cup DOMAIN u |-> IF key \in DOMAIN u THEN u[key] ELSE m[key]]

\* str(file_path) of a file of the input directory
PathOf(f) == "data/inputs/" \o f.name

\* A plausible slip: no try/except around the parser.
load_single_file_uncaught(f) ==
    IF ~HasLoader(f) THEN [raised |-> FALSE, docs |-> <<>>]
    ELSE IF f.parse.raises THEN [raised |-> TRUE, docs |-> <<>>]
    ELSE [raised |-> FALSE,
          docs |-> [i \in 1..Len(f.parse.docs) |->
                      Doc(f.parse.docs[i].page_content,
                          Update(f.parse.docs[i].metadata,
                                 [source_file |-> PathOf(f),
                                  file_name |-> f.name,
                                  file_type |-> FileType(f.ext)]))]]

\* load_single_file: [] for a file without loader, [] when the parser raises
\* (except Exception), else the parser's documents with the three metadata
\* fields added.  "raised" says whether an exception leaves the method.
load_single_file(f) ==
    IF ~HasLoader(f) THEN [raised |-> FALSE, docs |-> <<>>]
    ELSE IF f.parse.raises THEN [raised |-> FALSE, docs |-> <<>>]
    ELSE [raised |-> FALSE,
          docs |-> [i \in 1..Len(f.parse.docs) |->
                      Doc(f.parse.docs[i].page_content,
                          Update(f.parse.docs[i].metadata,
                                 [source_file |-> PathOf(f),
                                  file_name |-> f.name,
                                  file_type |-> FileType(f.ext)]))]]

\* the loop of load_all_documents: extend all_documents file by file; an
\* exception leaving load_single_file ends the loop
RECURSIVE LoadLoop(_, _, _)
LoadLoop(fs, i, all_documents) ==
    IF i > Len(fs) THEN [raised |-> FALSE, docs |-> all_documents]
    ELSE LET r == load_single_file(fs[i])
         IN  IF r.raised THEN [raised |-> TRUE, docs |-> all_documents]
             ELSE LoadLoop(fs, i + 1, all_documents \o r.docs)

load_all_documents(fs) == LoadLoop(fs, 1, <<>>)

(***************************************************************************)
(* VectorStoreManager (src/utils/vector_store_manager.py) over Chroma.     *)
(***************************************************************************)
\* An environment value: <<>> when the variable is not set, else <<value>>
Unset == <<>>
IsSet(v) == v # Unset

\* Chroma's add on the list it is given: chromadb rejects an empty list of
\* ids (ValueError); otherwise one record per document, appended.
ChromaAddRaises(docs) == docs = <<>>
ChromaAdd(idx, docs) == idx \o docs

\* the ids Chroma returns: one fresh id per document added
ChromaIds(idx, docs) == [i \in 1..Len(docs) |-> Len(idx) + i]

Injective(p) == \A i, j \in 1..Len(p) : i # j => p[i] # p[j]

\* similarity_search(query, k): the ranking is the embedding service's and
\* the index's; any ranked selection of at most k distinct records of the
\* collection can come back, none from an empty collection.
SimilaritySearch(idx, kk) ==
    {[i \in 1..Len(p) |-> idx[p[i]]] :
        p \in {q \in SeqsUpTo(1..Len(idx), Min(kk, Len(idx))) : Injective(q)}}

\* get_collection_stats
get_collection_stats(st, idx) ==
    [count |-> Len(idx), collection_name |-> st.collection_name]

(***************************************************************************)
(* QueryEngine (src/utils/query_engine.py).                                *)
(***************************************************************************)
\* query_engine.py:27
NoDocsAnswer == "No relevant documents found to answer your question."

\* what the chat model may answer
LLMAnswers == {"an answer",
               "I cannot answer this question based on the provided documents."}

\* doc.metadata.get('source_file', doc.metadata.get('file_name', f'Document {i}'))
SourceOf(doc, i) ==
    IF "source_file" \in DOMAIN doc.metadata THEN doc.metadata["source_file"]
    ELSE IF "file_name" \in DOMAIN doc.metadata THEN doc.metadata["file_name"]
    ELSE "Document " \o ToString(i)

\* f"[Source: {source}]\n{doc.page_content}"
ContextPart(doc, i) == <<"[Source: ", SourceOf(doc, i), "]", "\n">> \o doc.page_content

\* A plausible slip: the parts are joined by a single newline.
JoinPartsOneNewline(parts) == Join(parts, <<"\n">>)

\* "\n\n".join(context_parts)
JoinParts(parts) == Join(parts, <<"\n", "\n">>)

\* the loop of _build_context: enumerate(documents, 1)
ContextParts(docs) == [i \in 1..Len(docs) |-> ContextPart(docs[i], i)]

_build_context(docs) == JoinParts(ContextParts(docs))

\* _create_prompt
PromptHead == "Based on the following context, please answer the question. [...] Context:\n"
_create_prompt(q, ctx) ==
    <<PromptHead>> \o ctx \o <<"\n\nQuestion: ", q, "\n\nAnswer:">>

\* custom_prompt.format(context=context, question=question): a template is
\* a sequence of literal pieces and placeholders; a placeholder other than
\* {context} and {question} raises KeyError.
KnownPlaceholders == {"{context}", "{question}"}
Placeholders == KnownPlaceholders \cup {"{other}"}
FormatRaises(template) ==
    \E i \in 1..Len(template) : template[i] \in Placeholders \ KnownPlaceholders
Format(template, ctx, q) ==
    Concat([i \in 1..Len(template) |->
              IF template[i] = "{context}" THEN ctx
              ELSE IF template[i] = "{question}" THEN <<q>>
              ELSE <<template[i]>>])

\* A plausible slip: no early return on an empty retrieval.
EmptyRetrievalNeverReturns(docs) == FALSE

\* query_engine.py:26: `if not retrieved_docs`
EmptyRetrievalReturns(docs) == docs = <<>>

(***************************************************************************)
(* The operations.  A run that raises ends at pc = "raised".               *)
(***************************************************************************)
NoProcessor == [chunk_size |-> 0, chunk_overlap |-> 0, separators |-> <<>>]
NoStore == [collection_name |-> Unset, vector_store_path |-> Unset]
NoStats == [count |-> 0, collection_name |-> Unset]
NoResult == [answer |-> None, sources |-> <<>>]

\* query_engine.py:19, 62: the default k of query and query_with_custom_prompt
DefaultK == 5

\* main.py:36
DemoQuestion == "Tell me the key financial metrics of TCS and how it is different from last quarters?"

\* DocumentLoader(directory_path="data/inputs"): exists() and is_dir()
NewDocumentLoader ==
    /\ pc = "start"
    /\ io' = io \cup {"stat input directory"}
    /\ IF dir_exists
       THEN pc' = "loader_ready" /\ error' = error
       ELSE pc' = "raised" /\ error' = "ValueError"
    /\ UNCHANGED <<env, dir_exists, files, documents, processor, text, chunks,
                   text_chunks, store, index, added, doc_ids, stats, question,
                   k, custom_prompt, retrieved, context, prompt, llm_calls,
                   result>>

\* documents = loader.load_all_documents()
LoadAllDocuments ==
    /\ pc = "loader_ready"
    /\ LET r == load_all_documents(files)
       IN  /\ documents' = r.docs
           /\ pc' = IF r.raised THEN "raised" ELSE "loaded"
           /\ error' = IF r.raised THEN "Exception" ELSE error
    /\ io' = io \cup {"scan input directory"}
                \cup (IF \E i \in 1..Len(files) : HasLoader(files[i])
                      THEN {"read input file"} ELSE {})
    /\ UNCHANGED <<env, dir_exists, files, processor, text, chunks,
                   text_chunks, store, index, added, doc_ids, stats, question,
                   k, custom_prompt, retrieved, context, prompt, llm_calls,
                   result>>

\* The splitter's constructor refuses only an overlap larger than the chunk
\* size.
SplitterRejects(chunk_size, chunk_overlap) == chunk_overlap > chunk_size

\* processor = TextProcessor(): int(None) raises TypeError; TextProcessor
\* itself checks nothing.
NewTextProcessor ==
    /\ pc = "loaded"
    /\ LET st == get_summary(env) IN
       IF ~IsSet(st["CHUNK_SIZE"]) \/ ~IsSet(st["CHUNK_OVERLAP"])
       THEN pc' = "raised" /\ error' = "TypeError" /\ processor' = processor
       ELSE IF SplitterRejects(st["CHUNK_SIZE"][1], st["CHUNK_OVERLAP"][1])
       THEN pc' = "raised" /\ error' = "ValueError" /\ processor' = processor
       ELSE /\ processor' = [chunk_size |-> st["CHUNK_SIZE"][1],
                             chunk_overlap |-> st["CHUNK_OVERLAP"][1],
                             separators |-> DefaultSeparators]
            /\ pc' = "processor_ready"
            /\ error' = error
    /\ UNCHANGED <<env, dir_exists, files, io, documents, text, chunks,
                   text_chunks, store, index, added, doc_ids, stats, question,
                   k, custom_prompt, retrieved, context, prompt, llm_calls,
                   result>>

\* TextProcessor.split_documents
split_documents(p, docs) ==
    IF docs = <<>> THEN <<>> ELSE SplitterSplitDocuments(p, docs)

\* chunks = processor.split_documents(documents)
SplitDocuments ==
    /\ pc = "processor_ready"
    /\ chunks' = split_documents(processor, documents)
    /\ pc' = "chunked"
    /\ UNCHANGED <<error, env, dir_exists, files, io, documents, processor,
                   text, text_chunks, store, index, added, doc_ids, stats,
                   question, k, custom_prompt, retrieved, context, prompt,
                   llm_calls, result>>

\* TextProcessor.split_text(text)
SplitText ==
    /\ pc = "processor_ready"
    /\ text_chunks' = SplitterSplitText(processor, text)
    /\ pc' = "text_split"
    /\ UNCHANGED <<error, env, dir_exists, files, io, documents, processor,
                   text, chunks, store, index, added, doc_ids, stats,
                   question, k, custom_prompt, retrieved, context, prompt,
                   llm_calls, result>>

\* vector_store = VectorStoreManager(): os.makedirs(None) raises TypeError;
\* Chroma refuses a collection name that is None after the path was made.
NewVectorStoreManager ==
    /\ pc = "chunked"
    /\ LET st == get_summary(env) IN
       IF ~IsSet(st["VECTOR_STORE_PATH"])
       THEN pc' = "raised" /\ error' = "TypeError" /\ io' = io /\ store' = store
       ELSE IF ~IsSet(st["COLLECTION_NAME"])
       THEN /\ pc' = "raised" /\ error' = "ValueError" /\ store' = store
            /\ io' = io \cup {"make vector store path"}
       ELSE /\ store' = [collection_name |-> st["COLLECTION_NAME"],
                         vector_store_path |-> st["VECTOR_STORE_PATH"]]
            /\ io' = io \cup {"make vector store path", "open collection"}
            /\ pc' = "store_ready"
            /\ error' = error
    /\ UNCHANGED <<env, dir_exists, files, documents, processor, text, chunks,
                   text_chunks, index, added, doc_ids, stats, question, k,
                   custom_prompt, retrieved, context, prompt, llm_calls,
                   result>>

\* main.py:25: the list main hands to add_documents
MainAddArgument == documents

\* doc_ids = vector_store.add_documents(documents)
AddDocuments ==
    /\ pc = "store_ready"
    /\ added' = MainAddArgument
    /\ IF ChromaAddRaises(MainAddArgument)
       THEN /\ pc' = "raised" /\ error' = "ValueError"
            /\ UNCHANGED <<index, doc_ids>>
       ELSE /\ index' = ChromaAdd(index, MainAddArgument)
            /\ doc_ids' = ChromaIds(index, MainAddArgument)
            /\ pc' = "added"
            /\ error' = error
    /\ UNCHANGED <<env, dir_exists, files, io, documents, processor, text,
                   chunks, text_chunks, store, stats, question, k,
                   custom_prompt, retrieved, context, prompt, llm_calls,
                   result>>

\* stats = vector_store.get_collection_stats()
GetCollectionStats ==
    /\ pc = "added"
    /\ stats' = get_collection_stats(store, index)
    /\ io' = io \cup {"open collection"}
    /\ pc' = "stats"
    /\ UNCHANGED <<error, env, dir_exists, files, documents, processor, text,
                   chunks, text_chunks, store, index, added, doc_ids,
                   question, k, custom_prompt, retrieved, context, prompt,
                   llm_calls, result>>

\* query_engine = QueryEngine(vector_store)
NewQueryEngine ==
    /\ pc = "stats"
    /\ pc' = "engine_ready"
    /\ UNCHANGED <<error, env, dir_exists, files, io, documents, processor,
                   text, chunks, text_chunks, store, index, added, doc_ids,
                   stats, question, k, custom_prompt, retrieved, context,
                   prompt, llm_calls, result>>

\* QueryEngine.query(question, k)
Query ==
    /\ pc = "engine_ready"
    /\ \E r \in SimilaritySearch(index, k), a \in LLMAnswers :
          /\ retrieved' = r
          /\ IF EmptyRetrievalReturns(r)
             THEN /\ result' = [answer |-> NoDocsAnswer, sources |-> <<>>]
                  /\ UNCHANGED <<context, prompt, llm_calls>>
             ELSE /\ context' = _build_context(r)
                  /\ prompt' = _create_prompt(question, _build_context(r))
                  /\ llm_calls' = llm_calls + 1
                  /\ result' = [answer |-> a, sources |-> r]
    /\ pc' = "done"
    /\ UNCHANGED <<error, env, dir_exists, files, io, documents, processor,
                   text, chunks, text_chunks, store, index, added, doc_ids,
                   stats, question, k, custom_prompt>>

\* QueryEngine.query_with_custom_prompt(question, custom_prompt, k)
QueryWithCustomPrompt ==
    /\ pc = "engine_ready"
    /\ \E r \in SimilaritySearch(index, k), a \in LLMAnswers :
          /\ retrieved' = r
          /\ context' = _build_context(r)
          /\ IF FormatRaises(custom_prompt)
             THEN /\ pc' = "raised" /\ error' = "KeyError"
                  /\ UNCHANGED <<prompt, llm_calls, result>>
             ELSE /\ prompt' = Format(custom_prompt, _build_context(r), question)
                  /\ llm_calls' = llm_calls + 1
                  /\ result' = [answer |-> a, sources |-> r]
                  /\ pc' = "custom_done"
                  /\ error' = error
    /\ UNCHANGED <<env, dir_exists, files, io, documents, processor, text,
                   chunks, text_chunks, store, index, added, doc_ids, stats,
                   question, k, custom_prompt>>

(***************************************************************************)
(* Inputs.                                                                 *)
(***************************************************************************)
\* a file of the input directory: its name, its suffix, and what its
\* parser does (raise, or return documents)
File(name, ext, parse) == [name |-> name, ext |-> ext, parse |-> parse]

\* what a parser returns for a file: the text with the parser's own metadata
RawDoc(name, t) == Doc(t, [source |-> "data/inputs/" \o name])

LongText == [i \in 1..(MaxChunk + 2) |-> IF i % 2 = 1 THEN "a" ELSE "b"]
FileTexts == {<<"a", "b">>, LongText}

ParseOutcomes(name) ==
    {[raises |-> TRUE, docs |-> <<>>], [raises |-> FALSE, docs |-> <<>>]}
    \cup {[raises |-> FALSE, docs |-> <<RawDoc(name, t)>>] : t \in FileTexts}
    \cup {[raises |-> FALSE, docs |-> <<RawDoc(name, <<"a", "b">>), RawDoc(name, <<"b">>)>>]}
NoParse == [raises |-> FALSE, docs |-> <<>>]

Suffix == [n \in {"f1.txt", "f2.TXT", "old.doc", "tool.exe"} |->
             CASE n = "f1.txt" -> ".txt"
               [] n = "f2.TXT" -> ".TXT"
               [] n = "old.doc" -> ".doc"
               [] n = "tool.exe" -> ".exe"]

FileDescs(names) ==
    UNION {IF HasLoader([ext |-> Suffix[n]])
           THEN {File(n, Suffix[n], o) : o \in ParseOutcomes(n)}
           ELSE {File(n, Suffix[n], NoParse)} : n \in names}

\* directories: up to n files with distinct names, in traversal order
Dirs(names, n) ==
    {fs \in SeqsUpTo(FileDescs(names), n) :
        \A i, j \in 1..Len(fs) : i # j => fs[i].name # fs[j].name}

ValidEnv == [CHUNK_SIZE |-> <<MaxChunk>>, CHUNK_OVERLAP |-> <<1>>,
             TOP_K |-> <<MaxK>>, COLLECTION_NAME |-> <<"docs">>,
             VECTOR_STORE_PATH |-> <<"./chroma_db">>]

MainEnvs ==
    [CHUNK_SIZE : {Unset, <<MaxChunk - 1>>, <<MaxChunk>>},
     CHUNK_OVERLAP : {Unset, <<0>>, <<1>>},
     TOP_K : {Unset, <<MaxK>>},
     COLLECTION_NAME : {Unset, <<"docs">>},
     VECTOR_STORE_PATH : {Unset, <<"./chroma_db">>}]

\* a record left in the collection by an earlier run
OldRecord ==
    Doc(<<"b", "a">>, [source_file |-> "data/inputs/old.txt", file_name |-> "old.txt"])

ValidStore == [collection_name |-> <<"docs">>, vector_store_path |-> <<"./chroma_db">>]

(***************************************************************************)
(* Spec: the entry point, main().                                          *)
(***************************************************************************)
Init ==
    /\ pc = "start"
    /\ error = "none"
    /\ env \in MainEnvs
    /\ dir_exists \in BOOLEAN
    /\ files \in Dirs({"f1.txt", "old.doc", "tool.exe"}, MaxFiles)
    /\ io = {}
    /\ documents = <<>>
    /\ processor = NoProcessor
    /\ text = <<>>
    /\ chunks = <<>>
    /\ text_chunks = <<>>
    /\ store = NoStore
    /\ index \in {<<>>, <<OldRecord>>}
    /\ added = <<>>
    /\ doc_ids = <<>>
    /\ stats = NoStats
    /\ question = DemoQuestion
    /\ k = DefaultK
    /\ custom_prompt = <<>>
    /\ retrieved = <<>>
    /\ context = <<>>
    /\ prompt = <<>>
    /\ llm_calls = 0
    /\ result = NoResult

Next ==
    \/ NewDocumentLoader
    \/ LoadAllDocuments
    \/ NewTextProcessor
    \/ SplitDocuments
    \/ NewVectorStoreManager
    \/ AddDocuments
    \/ GetCollectionStats
    \/ NewQueryEngine
    \/ Query

Spec == Init /\ [][Next]_vars

(***************************************************************************)
(* SpecLoader: DocumentLoader on every directory of the bound.             *)
(***************************************************************************)
InitLoader ==
    /\ pc = "start"
    /\ error = "none"
    /\ env = ValidEnv
    /\ dir_exists \in BOOLEAN
    /\ files \in Dirs(DOMAIN Suffix, MaxFiles)
    /\ io = {}
    /\ documents = <<>>
    /\ processor = NoProcessor
    /\ text = <<>>
    /\ chunks = <<>>
    /\ text_chunks = <<>>
    /\ store = NoStore
    /\ index = <<>>
    /\ added = <<>>
    /\ doc_ids = <<>>
    /\ stats = NoStats
    /\ question = DemoQuestion
    /\ k = DefaultK
    /\ custom_prompt = <<>>
    /\ retrieved = <<>>
    /\ context = <<>>
    /\ prompt = <<>>
    /\ llm_calls = 0
    /\ result = NoResult

NextLoader == NewDocumentLoader \/ LoadAllDocuments

SpecLoader == InitLoader /\ [][NextLoader]_vars

(***************************************************************************)
(* SpecSplit: TextProcessor on every text and configuration of the bound,  *)
(* starting where main has loaded the documents.                           *)
(***************************************************************************)
Texts == SeqsUpTo(Alphabet, MaxLen) \cup SeqsUpTo(Letters, MaxPlainLen)
SecondText == <<"b", "a", "b">>

TextFile(name, t) ==
    File(name, Suffix[name], [raises |-> FALSE, docs |-> <<RawDoc(name, t)>>])

SplitDirs(t) ==
    {<<TextFile("f1.txt", t)>>,
     <<TextFile("f1.txt", t), TextFile("f2.TXT", SecondText)>>}
    \cup (IF t = <<>> THEN {<<>>} ELSE {})

SplitEnvs ==
    {[ValidEnv EXCEPT !["CHUNK_SIZE"] = <<c>>, !["CHUNK_OVERLAP"] = <<o>>] :
        c \in 1..MaxChunk, o \in 0..(MaxChunk + 1)}

InitSplit ==
    /\ pc = "loaded"
    /\ error = "none"
    /\ env \in SplitEnvs
    /\ dir_exists = TRUE
    /\ text \in Texts
    /\ files \in SplitDirs(text)
    /\ documents = load_all_documents(files).docs
    /\ io = {"stat input directory", "scan input directory"}
              \cup (IF files # <<>> THEN {"read input file"} ELSE {})
    /\ processor = NoProcessor
    /\ chunks = <<>>
    /\ text_chunks = <<>>
    /\ store = NoStore
    /\ index = <<>>
    /\ added = <<>>
    /\ doc_ids = <<>>
    /\ stats = NoStats
    /\ question = DemoQuestion
    /\ k = DefaultK
    /\ custom_prompt = <<>>
    /\ retrieved = <<>>
    /\ context = <<>>
    /\ prompt = <<>>
    /\ llm_calls = 0
    /\ result = NoResult

NextSplit == NewTextProcessor \/ SplitDocuments \/ SplitText

SpecSplit == InitSplit /\ [][NextSplit]_vars

(***************************************************************************)
(* SpecQuery: QueryEngine over every collection, question, k and template  *)
(* of the bound, starting where the vector store is open.                  *)
(***************************************************************************)
QueryContents == {<<"a">>, <<"b", "\n", "\n", "a">>}
QueryMetadata ==
    {[source_file |-> "data/inputs/f1.txt", file_name |-> "f1.txt"],
     [file_name |-> "f2.txt"],
     [source |-> "elsewhere"]}
QueryDocs == {Doc(c, m) : c \in QueryContents, m \in QueryMetadata}

Templates ==
    {<<"Context: ", "{context}", " Question: ", "{question}">>,
     <<"{question}">>,
     <<"{context}", "{other}">>}

InitQuery ==
    /\ pc = "stats"
    /\ error = "none"
    /\ env = ValidEnv
    /\ dir_exists = TRUE
    /\ files = <<>>
    /\ io = {}
    /\ documents = <<>>
    /\ processor = NoProcessor
    /\ text = <<>>
    /\ chunks = <<>>
    /\ text_chunks = <<>>
    /\ store = ValidStore
    /\ index \in SeqsUpTo(QueryDocs, MaxIndex)
    /\ added = <<>>
    /\ doc_ids = <<>>
    /\ stats = get_collection_stats(store, index)
    /\ question \in {DemoQuestion, "What is the revenue?"}
    /\ k \in (1..MaxK) \cup {DefaultK}
    /\ custom_prompt \in Templates
    /\ retrieved = <<>>
    /\ context = <<>>
    /\ prompt = <<>>
    /\ llm_calls = 0
    /\ result = NoResult

NextQuery == NewQueryEngine \/ Query \/ QueryWithCustomPrompt

SpecQuery == InitQuery /\ [][NextQuery]_vars

(***************************************************************************)
(* The claims.                                                             *)
(***************************************************************************)
Contents(ds) == [i \in 1..Len(ds) |-> ds[i].page_content]

\* the chunks of `chunks` that come from document d (documents of distinct
\* files differ in their metadata; chunks carry their parent's)
ChunksOf(d) == Contents(SelectSeq(chunks, LAMBDA c : c.metadata = d.metadata))

\* C1: during an ingestion run every record handed to the index's add is a
\* chunk the Chunker produced from the loaded documents, so every indexed
\* record is at most chunk_size long.  (Stated for the run of main; the code
\* hands over `documents`.)
C1_OnlyChunksAreIndexed ==
    pc = "added" =>
        /\ added = chunks
        /\ \A i \in 1..Len(added) : Len(added[i].page_content) <= processor.chunk_size

\* C2: whenever the similarity search returns no record, query returns the
\* fixed fallback phrase with an empty source list and the chat model has
\* not been invoked.
C2_EmptyRetrievalShortCircuits ==
    (pc = "done" /\ retrieved = <<>>) =>
        /\ result = [answer |-> NoDocsAnswer, sources |-> <<>>]
        /\ llm_calls = 0

C2_Witness == pc = "done" /\ retrieved = <<>> /\ result.answer = NoDocsAnswer

\* C3: query_with_custom_prompt, too, returns without invoking the chat
\* model whenever the similarity search returns no record.  (The code
\* invokes it.)
C3_CustomPromptShortCircuits ==
    (pc = "custom_done" /\ retrieved = <<>>) => llm_calls = 0

\* C4: with a required configuration value missing, the program fails before
\* any I/O: the input directory is not scanned, no file is read and the
\* vector-store path is not made.  (The code reads the values where it first
\* uses them.)
RequiredKeys == {"CHUNK_SIZE", "CHUNK_OVERLAP", "COLLECTION_NAME", "VECTOR_STORE_PATH"}
MissingRequired == \E key \in RequiredKeys : ~IsSet(env[key])
C4_MissingConfigFailsBeforeIO ==
    MissingRequired =>
        io \cap {"scan input directory", "read input file", "make vector store path"} = {}

\* C5: load_all_documents never raises because of a file; a file without a
\* parser for its extension and a file whose parser raises contribute
\* nothing, and the list returned is the concatenation, in traversal order,
\* of what the parsers of the other files returned (content unchanged,
\* metadata extended by the file's path, name and type).
ParsedSuffixes == {".pdf", ".txt", ".docx", ".pptx", ".xlsx", ".xls", ".csv",
                   ".json", ".html", ".md"}
Contributes(f) == Lower(f.ext) \in ParsedSuffixes /\ ~f.parse.raises
Contribution(f) ==
    IF Contributes(f) THEN f.parse.docs ELSE <<>>
C5_Expected == Concat([i \in 1..Len(files) |-> Contribution(files[i])])
C5_LoaderSkipsAndContinues ==
    /\ (pc = "raised" => ~dir_exists)
    /\ pc = "loaded" =>
          /\ Contents(documents) = Contents(C5_Expected)
          /\ \A i \in 1..Len(documents) :
                /\ \A key \in DOMAIN C5_Expected[i].metadata :
                      documents[i].metadata[key] = C5_Expected[i].metadata[key]
                /\ documents[i].metadata["file_name"] \in
                      {files[j].name : j \in {n \in 1..Len(files) : Contributes(files[n])}}

C5_Witness ==
    /\ pc = "loaded"
    /\ Len(files) = 2
    /\ files[1].ext = ".txt" /\ files[1].parse.raises
    /\ files[2].ext = ".TXT" /\ Len(documents) = 2

\* C6: a text without separators, longer than chunk_size, split with
\* 0 <= overlap < chunk_size, yields ceil((L - overlap) / (chunk_size -
\* overlap)) chunks, each at most chunk_size long, each after the first
\* starting with the last `overlap` characters of the one before: chunk i
\* (from 0) is text[i * (chunk_size - overlap) : i * (chunk_size - overlap) +
\* chunk_size].
Plain(t) == \A i \in 1..Len(t) : t[i] \in Letters
PlainSplit(t, cs, ov, cks) ==
    LET L == Len(t)
        step == cs - ov
        n == (L - ov + step - 1) \div step
    IN  /\ Len(cks) = n
        /\ \A i \in 1..Len(cks) :
              /\ Len(cks[i]) <= cs
              /\ cks[i] = SubSeq(t, (i - 1) * step + 1, Min(L, (i - 1) * step + cs))
        /\ \A i \in 1..(Len(cks) - 1) :
              /\ Len(cks[i]) >= ov /\ Len(cks[i + 1]) >= ov
              /\ SubSeq(cks[i + 1], 1, ov) = SubSeq(cks[i], Len(cks[i]) - ov + 1, Len(cks[i]))
C6_Applies(t) ==
    /\ Plain(t)
    /\ Len(t) > processor.chunk_size
    /\ processor.chunk_overlap < processor.chunk_size
C6_PlainTextChunks ==
    /\ pc = "chunked" =>
          \A i \in 1..Len(documents) :
              C6_Applies(documents[i].page_content) =>
                  PlainSplit(documents[i].page_content, processor.chunk_size,
                             processor.chunk_overlap, ChunksOf(documents[i]))
    /\ pc = "text_split" =>
          (C6_Applies(text) =>
              PlainSplit(text, processor.chunk_size, processor.chunk_overlap, text_chunks))

C6_Witness ==
    /\ pc = "chunked"
    /\ Len(documents) = 2
    /\ C6_Applies(documents[1].page_content)
    /\ processor.chunk_overlap > 0
    /\ Len(ChunksOf(documents[1])) = 3
    /\ Len(documents[1].page_content) = 2 * processor.chunk_size

\* C7 as stated: every document of length L <= chunk_size, whatever its
\* content and down to the smallest length, yields exactly one chunk equal
\* to its content.
C7_Original ==
    /\ pc = "chunked" =>
          \A i \in 1..Len(documents) :
              Len(documents[i].page_content) <= processor.chunk_size =>
                  ChunksOf(documents[i]) = <<documents[i].page_content>>
    /\ pc = "text_split" =>
          (Len(text) <= processor.chunk_size => text_chunks = <<text>>)

\* C7, amended: a document of length 1 <= L <= chunk_size whose content
\* neither starts nor ends with whitespace yields exactly one chunk, equal
\* to its content.
C7_Applies(t) ==
    /\ 1 <= Len(t) /\ Len(t) <= processor.chunk_size
    /\ t[1] \notin Whitespace /\ t[Len(t)] \notin Whitespace
C7_ShortTextOneChunk ==
    /\ pc = "chunked" =>
          \A i \in 1..Len(documents) :
              C7_Applies(documents[i].page_content) =>
                  ChunksOf(documents[i]) = <<documents[i].page_content>>
    /\ pc = "text_split" => (C7_Applies(text) => text_chunks = <<text>>)

C7_Witness ==
    /\ pc = "chunked"
    /\ Len(documents) >= 1
    /\ C7_Applies(documents[1].page_content)
    /\ Len(documents[1].page_content) = processor.chunk_size
    /\ Contains(documents[1].page_content, <<"\n", "\n">>)
    /\ ChunksOf(documents[1]) = <<documents[1].page_content>>

\* C8: a TextProcessor is never constructed, and no split ever runs, with
\* chunk_overlap >= chunk_size.  (The constructor accepts chunk_overlap =
\* chunk_size.)
C8_OverlapBelowChunkSize ==
    pc \in {"processor_ready", "chunked", "text_split"} =>
        processor.chunk_overlap < processor.chunk_size

\* C9: on an empty input directory, with the configuration complete, the
\* entry point runs to its end without raising.  (Adding the empty list to
\* the index raises.)
ConfigComplete ==
    /\ ~MissingRequired
    /\ env["CHUNK_OVERLAP"][1] < env["CHUNK_SIZE"][1]
C9_EmptyDirectoryCompletes ==
    (dir_exists /\ files = <<>> /\ ConfigComplete) => pc # "raised"

\* C10: for n >= 1 retrieved chunks, the context holds exactly n blocks, in
\* the order of the list, block i being "[Source: <id>]", a newline and the
\* chunk's content unchanged, consecutive blocks separated by one blank line,
\* none dropped, merged or de-duplicated; <id> is the chunk's source_file,
\* else its file_name, else "Document i".
RECURSIVE Blocks(_, _)
Blocks(ctx, cur) ==
    IF ctx = <<>> THEN <<cur>>
    ELSE IF Head(ctx) = "[Source: " /\ cur # <<>>
         THEN <<cur>> \o Blocks(Tail(ctx), <<Head(ctx)>>)
         ELSE Blocks(Tail(ctx), Append(cur, Head(ctx)))
C10_SourceId(doc, i) ==
    IF "source_file" \in DOMAIN doc.metadata THEN doc.metadata["source_file"]
    ELSE IF "file_name" \in DOMAIN doc.metadata THEN doc.metadata["file_name"]
    ELSE "Document " \o ToString(i)
C10_ContextBlocks ==
    (pc \in {"done", "custom_done"} /\ retrieved # <<>>) =>
        LET b == Blocks(context, <<>>)
            n == Len(retrieved)
        IN  /\ Len(b) = n
            /\ \A i \in 1..Len(b) :
                  b[i] = <<"[Source: ", C10_SourceId(retrieved[i], i), "]", "\n">>
                         \o retrieved[i].page_content
                         \o (IF i < n THEN <<"\n", "\n">> ELSE <<>>)

C10_Witness ==
    /\ pc = "done"
    /\ Len(retrieved) = 2
    /\ retrieved[1] = retrieved[2]
    /\ "source_file" \notin DOMAIN retrieved[2].metadata
    /\ "file_name" \notin DOMAIN retrieved[2].metadata
    /\ Contains(retrieved[1].page_content, <<"\n", "\n">>)
    /\ Len(Blocks(context, <<>>)) = 2

\* C11: TOP_K governs retrieval: a query issued without an explicit k (the
\* entry point's demonstration query) asks the index for TOP_K nearest
\* neighbours, so at most TOP_K chunks enter the context.  (Nothing reads
\* TOP_K; the query asks for its default of 5.)
C11_TopKGovernsRetrieval ==
    (pc = "done" /\ IsSet(env["TOP_K"])) =>
        /\ k = env["TOP_K"][1]
        /\ Len(retrieved) <= env["TOP_K"][1]

====
